---------------------------- MODULE Spec2Model ----------------------------
(***************************************************************************)
(* TGSKit: loading, validating and encoding a Bodymovin/Lottie document   *)
(* as a Telegram sticker (tgs).                                            *)
(*                                                                         *)
(* Two versions of the class are modelled: the one that returns structured *)
(* diagnostics (IValidationError, with the size check), whose definitions  *)
(* keep the source's names, and the one that returns plain strings         *)
(* (src/TGSKit.ts), whose definitions carry the suffix Flat.               *)
(***************************************************************************)
EXTENDS FiniteSets, Integers, Sequences, TLC

VARIABLES
  data,       \* this._data, the stored Document
  loaded,     \* the value the last load() stored (history)
  before,     \* this._data as it was when the last validate() was called (history)
  ret,        \* outcome of the last validate() since the last load()/generate()
  prevRet,    \* outcome of the validate() call right before that one, if any
  promise,    \* state of the promise returned by the last load()
  xhr         \* the XMLHttpRequest of the load() in flight

vars == <<data, loaded, before, ret, prevRet, promise, xhr>>

(***************************************************************************)
(* JavaScript values.  A scalar or opaque value is a record [k, n, s]:     *)
(* k is the type, n the number (the truth value of a boolean, the length   *)
(* of an array, the number of payload bytes of a string), s the text of a  *)
(* string.  "undefined" is what reading a missing property gives; a JSON   *)
(* document has no property whose value is undefined, so a property is     *)
(* `in` its object exactly when its value is not Undef.                    *)
(***************************************************************************)
Undef == [k |-> "undefined", n |-> 0, s |-> ""]
Null == [k |-> "null", n |-> 0, s |-> ""]
Num(i) == [k |-> "number", n |-> i, s |-> ""]
Str(x) == [k |-> "string", n |-> 0, s |-> x]
Blob(len) == [k |-> "string", n |-> len, s |-> "blob"]
Bool(b) == [k |-> "boolean", n |-> IF b THEN 1 ELSE 0, s |-> ""]
Obj == [k |-> "object", n |-> 0, s |-> ""]
Arr(len) == [k |-> "array", n |-> len, s |-> ""]

\* A property that holds a list whose entries the code walks, or any other value.
List(entries) == [list |-> TRUE, v |-> Arr(Len(entries)), items |-> entries]
NotList(val) == [list |-> FALSE, v |-> val, items |-> <<>>]

\* `name in object`
InVal(val) == val.k # "undefined"

\* x != null  (loose: undefined too)
NotNullish(val) == val.k \notin {"undefined", "null"}

\* Number(x); NaN is [nan |-> TRUE]
NaN == [nan |-> TRUE, n |-> 0]
Finite(i) == [nan |-> FALSE, n |-> i]
StrToNumber(x) ==
  CASE x = "" -> Finite(0)
    [] x = "0" -> Finite(0)
    [] x = "1" -> Finite(1)
    [] x = "30" -> Finite(30)
    [] x = "512" -> Finite(512)
    [] OTHER -> NaN
ToNumber(val) ==
  CASE val.k = "number" -> Finite(val.n)
    [] val.k = "boolean" -> Finite(val.n)
    [] val.k = "null" -> Finite(0)
    [] val.k = "string" -> StrToNumber(val.s)
    [] val.k = "array" -> IF val.n = 0 THEN Finite(0) ELSE NaN
    [] OTHER -> NaN

\* x == i  for a number i (loose equality)
LooseEqNum(val, i) ==
  /\ val.k \notin {"undefined", "null"}
  /\ ~ToNumber(val).nan
  /\ ToNumber(val).n = i

\* x === i
StrictEqNum(val, i) == val.k = "number" /\ val.n = i

\* x == 'text' (loose equality with a string that is not numeric)
LooseEqStr(val, text) ==
  \/ val.k = "string" /\ val.s = text
  \/ val.k = "array" /\ val.n = 0 /\ text = ""

\* truthiness, for `asset.id || i`
Truthy(val) ==
  CASE val.k \in {"undefined", "null"} -> FALSE
    [] val.k = "number" -> val.n # 0
    [] val.k = "boolean" -> val.n = 1
    [] val.k = "string" -> val.s # ""
    [] OTHER -> TRUE

\* `${x}` of a string or a number
Text(val) == IF val.k = "string" THEN val.s ELSE ToString(val.n)

\* (a - b) / c > 3.0
QuotientAbove3(a, b, c) ==
  LET x == ToNumber(a)
      y == ToNumber(b)
      z == ToNumber(c)
      d == x.n - y.n
  IN /\ ~x.nan /\ ~y.nan /\ ~z.nan
     /\ \/ z.n > 0 /\ d > 3 * z.n
        \/ z.n < 0 /\ d < 3 * z.n
        \/ z.n = 0 /\ d > 0

(***************************************************************************)
(* Diagnostics and the outcome of a call.                                  *)
(***************************************************************************)
\* { message } : a diagnostic without details
Error(msg) == [message |-> msg, details |-> <<>>]
\* { message, details }
ErrorWith(msg, sub) == [message |-> msg, details |-> sub]

Returned(errs) == [kind |-> "returned", errors |-> errs]
Threw == [kind |-> "threw", errors |-> <<>>]
NoCall == [kind |-> "none", errors |-> <<>>]

\* if (cond) errors.push({ message })
PushIf(cond, msg) == IF cond THEN <<Error(msg)>> ELSE <<>>
\* if (sub.length !== 0) errors.push({ message, details: sub })
PushIfAny(msg, sub) == IF sub # <<>> THEN <<ErrorWith(msg, sub)>> ELSE <<>>

(***************************************************************************)
(* checkItems and checkLayer, with structured diagnostics.                 *)
(***************************************************************************)
RECURSIVE checkItems(_, _)
RECURSIVE checkItemsLoop(_, _, _, _)

\* checkItem as it would be if the recursion ignored `shapes` and went on into
\* every `it` (the asymmetry "fixed"): C5 must tell the difference
checkItemDeep(item, shapes) ==
  IF item.k = "null"
  THEN Threw
  ELSE
    LET own ==
          PushIf(LooseEqStr(item.ty, "rp"), "Composition should not include any Repeaters")
          \o PushIf(LooseEqStr(item.ty, "sr"), "Composition should not include any Star Shapes")
          \o PushIf(LooseEqStr(item.ty, "mm"), "Composition should not include any Merge Paths")
          \o PushIf(LooseEqStr(item.ty, "gs"), "Composition should not include any Gradient Strokes")
        sub == checkItems(item.it, TRUE)
    IN IF sub.kind = "threw"
       THEN Threw
       ELSE Returned(own \o PushIfAny("Composition items should not have errors", sub.errors))

\* checkItem as it would be if it never looked into `it`: C9 must tell the difference
checkItemShallow(item, shapes) ==
  IF item.k = "null"
  THEN Threw
  ELSE Returned(
         PushIf(LooseEqStr(item.ty, "rp"), "Composition should not include any Repeaters")
         \o PushIf(LooseEqStr(item.ty, "sr"), "Composition should not include any Star Shapes")
         \o PushIf(LooseEqStr(item.ty, "mm"), "Composition should not include any Merge Paths")
         \o PushIf(LooseEqStr(item.ty, "gs"), "Composition should not include any Gradient Strokes"))

\* the body of the forEach callback of checkItems, for one item
checkItem(item, shapes) ==
  IF item.k = "null"
  THEN Threw   \* item.ty of null
  ELSE
    LET own ==
          PushIf(LooseEqStr(item.ty, "rp"), "Composition should not include any Repeaters")
          \o PushIf(LooseEqStr(item.ty, "sr"), "Composition should not include any Star Shapes")
          \o PushIf(LooseEqStr(item.ty, "mm"), "Composition should not include any Merge Paths")
          \o PushIf(LooseEqStr(item.ty, "gs"), "Composition should not include any Gradient Strokes")
    IN IF shapes
       THEN LET sub == checkItems(item.it, FALSE)
            IN IF sub.kind = "threw"
               THEN Threw
               ELSE Returned(own \o PushIfAny("Composition items should not have errors", sub.errors))
       ELSE Returned(own)

\* items.forEach(...) from entry i on, errors so far acc
checkItemsLoop(entries, i, shapes, acc) ==
  IF i > Len(entries)
  THEN Returned(acc)
  ELSE LET r == checkItem(entries[i], shapes)
       IN IF r.kind = "threw"
          THEN Threw
          ELSE checkItemsLoop(entries, i + 1, shapes, acc \o r.errors)

checkItems(items, shapes) ==
  IF items.list
  THEN checkItemsLoop(items.items, 1, shapes, <<>>)
  ELSE IF NotNullish(items.v)
       THEN Threw   \* items.forEach is not a function
       ELSE Returned(<<>>)

\* the property checks of checkLayer, which read properties only
layerChecks(layer) ==
  PushIf(NotNullish(layer.ddd) /\ ~LooseEqNum(layer.ddd, 0),
         "Composition should not include any 3D Layers")
  \o PushIf(NotNullish(layer.sr) /\ ~LooseEqNum(layer.sr, 1),
            "Composition should not include any Time Stretching")
  \o PushIf(NotNullish(layer.tm), "Composition should not include any Time Remapping")
  \o PushIf(StrictEqNum(layer.ty, 1), "Composition should not include any Solids")
  \o PushIf(StrictEqNum(layer.ty, 2), "Composition should not include any Images")
  \o PushIf(StrictEqNum(layer.ty, 5), "Composition should not include any Texts")
  \o PushIf(layer.hasMask = Bool(TRUE) \/ NotNullish(layer.masksProperties),
            "Composition should not include any Masks")
  \o PushIf(NotNullish(layer.tt), "Composition should not include any Mattes")
  \o PushIf(StrictEqNum(layer.ao, 1), "Composition should not include any Auto-Oriented Layers")
  \o PushIf(NotNullish(layer.ef), "Composition should not include any Layer Effects")

checkLayer(layer) ==
  CASE layer.k = "null" -> Threw       \* layer.ddd of null
    [] layer.k = "primitive" -> Threw  \* 'shapes' in a number
    [] OTHER ->
         IF layer.shapes.list
         THEN LET sub == checkItems(layer.shapes, TRUE)
              IN IF sub.kind = "threw"
                 THEN Threw
                 ELSE Returned(layerChecks(layer)
                               \o PushIfAny("Composition shapes should not have errors", sub.errors))
         ELSE Returned(layerChecks(layer))


(***************************************************************************)
(* generate: the canonical document and the size of its gzip blob.         *)
(***************************************************************************)
\* JSON.stringify(this._data): the serialized text, kept as the properties it
\* writes.  An array is written without its named properties.
stringify(d) == IF d.k = "array" THEN [d EXCEPT !.tgs = Undef] ELSE d

\* pako.gzip(text).length: the incompressible payload the text carries plus the
\* bytes of the rest (the documents of this model have a short rest).
gzip(text) == [size |-> text.nm.n + 200]

\* generate as it would be if it also removed `assets`: C8 must tell the difference
generateDropsAssets(d) ==
  IF d.k = "null"
  THEN [threw |-> TRUE, data |-> d, blob |-> [size |-> 0]]
  ELSE LET stripped == [d EXCEPT !.tgs = Num(1),
                                 !.markers = Undef,
                                 !.fonts = Undef,
                                 !.chars = Undef,
                                 !.assets = NotList(Undef)]
       IN [threw |-> FALSE, data |-> stripped, blob |-> gzip(stringify(stripped))]

generate(d) ==
  IF d.k = "null"
  THEN [threw |-> TRUE, data |-> d, blob |-> [size |-> 0]]   \* this._data.tgs of null
  ELSE LET stripped == [d EXCEPT !.tgs = Num(1),
                                 !.markers = Undef,
                                 !.fonts = Undef,
                                 !.chars = Undef]
       IN [threw |-> FALSE, data |-> stripped, blob |-> gzip(stringify(stripped))]

(***************************************************************************)
(* validate, with structured diagnostics and the size check.               *)
(***************************************************************************)
\* The value of a `layers` property passed where the code reads a layer's
\* properties: an array (or an opaque object, a number, a string) has none of
\* them; of undefined and null no property can be read.
AsLayer(slot) ==
  [k |-> IF slot.list THEN "array"
         ELSE IF slot.v.k \in {"undefined", "null"} THEN "null"
         ELSE IF slot.v.k \in {"object", "array"} THEN "object"
         ELSE "primitive",
   ddd |-> Undef, sr |-> Undef, tm |-> Undef, ty |-> Undef,
   hasMask |-> Undef, masksProperties |-> Undef, tt |-> Undef, ao |-> Undef,
   ef |-> Undef, shapes |-> NotList(Undef)]

RECURSIVE assetsLoop(_, _, _)
\* this._data.assets.forEach((asset, i) => ...), i counted from 0
assetsLoop(entries, i, assetsErrors) ==
  IF i >= Len(entries)
  THEN Returned(assetsErrors)
  ELSE LET asset == entries[i + 1]
       IN IF asset.k \in {"null", "primitive"}
          THEN Threw   \* 'layers' in asset
          ELSE IF asset.layers.list
               THEN LET assetErrors == checkLayer(AsLayer(asset.layers))
                        key == IF Truthy(asset.id) THEN Text(asset.id) ELSE ToString(i)
                    IN IF assetErrors.kind = "threw"
                       THEN Threw
                       ELSE assetsLoop(entries, i + 1,
                                  assetsErrors
                                  \o PushIfAny("Asset " \o key \o " has errors", assetErrors.errors))
               ELSE assetsLoop(entries, i + 1, assetsErrors)

RECURSIVE layersLoop(_, _, _, _)
\* this._data.layers.forEach(layer => ...): the list layersErrors and the number
\* of times the callback pushed 'Layers have errors' (each push holds the same
\* layersErrors array, so each shows its final contents)
layersLoop(entries, i, layersErrors, pushes) ==
  IF i > Len(entries)
  THEN [kind |-> "returned", layersErrors |-> layersErrors, pushes |-> pushes]
  ELSE LET layerErrors == checkLayer(entries[i])
       IN IF layerErrors.kind = "threw"
          THEN [kind |-> "threw", layersErrors |-> <<>>, pushes |-> 0]
          ELSE LET now == layersErrors \o PushIfAny("Layer ", layerErrors.errors)
               IN layersLoop(entries, i + 1, now, IF now # <<>> THEN pushes + 1 ELSE pushes)

Copies(n, e) == [j \in 1..n |-> e]

\* what validate() does to a stored document d: the outcome and this._data after it
validate(d) ==
  IF d.k = "null"
  THEN [out |-> Threw, data |-> d]   \* this._data.fr of null
  ELSE
    LET head ==
          PushIf(~LooseEqNum(d.fr, 30) /\ ~LooseEqNum(d.fr, 60),
                 "Frame rate must be exactly 30 or 60")
          \o PushIf(QuotientAbove3(d.op, d.ip, d.fr), "Should not be longer than 3 seconds")
          \o PushIf(~LooseEqNum(d.w, 512) \/ ~LooseEqNum(d.h, 512),
                    "Dimensions should be exactly 512pxx512px")
          \o PushIf(NotNullish(d.ddd) /\ ~LooseEqNum(d.ddd, 0), "Should not have 3D layers")
        assets == IF d.assets.list
                  THEN assetsLoop(d.assets.items, 0, <<>>)
                  ELSE Returned(<<>>)
        layers == IF d.layers.list
                  THEN layersLoop(d.layers.items, 1, <<>>, 0)
                  ELSE [kind |-> "returned", layersErrors |-> <<>>, pushes |-> 0]
        g == generate(d)
        tail ==
          PushIf(d.fonts.k = "array" /\ d.fonts.n > 0, "Should not have fonts")
          \o PushIf(d.chars.k = "array" /\ d.chars.n > 0, "Should not have glyph chars")
          \o PushIf(g.blob.size > 65536, "Total sticker size should not exceed 64 KB")
    IN IF assets.kind = "threw" \/ layers.kind = "threw"
       THEN [out |-> Threw, data |-> d]
       ELSE [out |-> Returned(
                       head
                       \o PushIfAny("Assets must not have errors", assets.errors)
                       \o (IF d.layers.list
                           THEN Copies(layers.pushes,
                                       ErrorWith("Layers have errors", layers.layersErrors))
                           ELSE <<Error("Should have atleast 1 layer")>>)
                       \o tail),
             data |-> g.data]


(***************************************************************************)
(* The version with plain-string diagnostics (src/TGSKit.ts): a diagnostic *)
(* is its message; errors.concat(...) builds a new array and leaves errors *)
(* as it was, so only a throw of the call inside it shows.                 *)
(***************************************************************************)
Messages(errs) == [j \in DOMAIN errs |-> errs[j].message]

RECURSIVE checkItemsFlat(_, _)
RECURSIVE checkItemsLoopFlat(_, _, _, _)

checkItemFlat(item, shapes) ==
  IF item.k = "null"
  THEN Threw
  ELSE
    LET own ==
          (IF LooseEqStr(item.ty, "rp") THEN <<"Composition should not include any Repeaters">> ELSE <<>>)
          \o (IF LooseEqStr(item.ty, "sr") THEN <<"Composition should not include any Star Shapes">> ELSE <<>>)
          \o (IF LooseEqStr(item.ty, "mm") THEN <<"Composition should not include any Merge Paths">> ELSE <<>>)
          \o (IF LooseEqStr(item.ty, "gs") THEN <<"Composition should not include any Gradient Strokes">> ELSE <<>>)
    IN IF shapes /\ checkItemsFlat(item.it, FALSE).kind = "threw"
       THEN Threw
       ELSE Returned(own)   \* errors.concat(...) is dropped

checkItemsLoopFlat(entries, i, shapes, acc) ==
  IF i > Len(entries)
  THEN Returned(acc)
  ELSE LET r == checkItemFlat(entries[i], shapes)
       IN IF r.kind = "threw"
          THEN Threw
          ELSE checkItemsLoopFlat(entries, i + 1, shapes, acc \o r.errors)

checkItemsFlat(items, shapes) ==
  IF items.list
  THEN checkItemsLoopFlat(items.items, 1, shapes, <<>>)
  ELSE IF NotNullish(items.v)
       THEN Threw   \* items.forEach is not a function
       ELSE Returned(<<>>)

checkLayerFlat(layer) ==
  IF layer.k = "null"
  THEN Threw   \* layer.ddd of null or undefined
  ELSE IF checkItemsFlat(layer.shapes, TRUE).kind = "threw"
       THEN Threw
       ELSE Returned(Messages(layerChecks(layer)))   \* errors.concat(...) is dropped

RECURSIVE forEachFlat(_, _, _)
\* list.forEach(entry => errors.concat(this.checkLayer(...))): whether it throws
forEachFlat(entries, i, ofAsset) ==
  IF i > Len(entries)
  THEN FALSE
  ELSE LET entry == entries[i]
           r == IF ofAsset
                THEN IF entry.k = "null"
                     THEN Threw   \* asset.layers of null
                     ELSE checkLayerFlat(AsLayer(entry.layers))
                ELSE checkLayerFlat(entry)
       IN r.kind = "threw" \/ forEachFlat(entries, i + 1, ofAsset)

validateFlat(d) ==
  IF d.k = "null"
  THEN [out |-> Threw, data |-> d]
  ELSE
    LET head ==
          (IF QuotientAbove3(d.op, d.ip, d.fr) THEN <<"Longer than 3 seconds">> ELSE <<>>)
          \o (IF ~LooseEqNum(d.w, 512) \/ ~LooseEqNum(d.h, 512)
              THEN <<"Dimensions should be exactly 512pxx512px">> ELSE <<>>)
          \o (IF NotNullish(d.ddd) /\ ~LooseEqNum(d.ddd, 0)
              THEN <<"Must not have 3D layers">> ELSE <<>>)
          \o (IF InVal(d.markers) THEN <<"Must not have markers">> ELSE <<>>)
    IN IF \/ d.assets.list /\ forEachFlat(d.assets.items, 1, TRUE)
          \/ d.layers.list /\ forEachFlat(d.layers.items, 1, FALSE)
       THEN [out |-> Threw, data |-> d]
       ELSE [out |-> Returned(head \o (IF d.layers.list
                                       THEN <<>>
                                       ELSE <<"Must have atleast 1 layer">>)),
             data |-> d]

generateFlat(d) ==
  IF d.k = "null"
  THEN [threw |-> TRUE, data |-> d]
  ELSE [threw |-> FALSE, data |-> [d EXCEPT !.tgs = Num(1)]]


(***************************************************************************)
(* The documents a caller may hand to load().  Every document is a         *)
(* variation of BaseDoc, the valid sticker { fr: 30, ip: 0, op: 90,        *)
(* w: 512, h: 512, ddd: 0, layers: [{ ty: 4, shapes: [] }] }.  nm stands   *)
(* for the top-level properties the code never names.                      *)
(***************************************************************************)
MaxLayers == 2   \* longest `layers` list built from SomeLayers
MaxAssets == 2   \* longest `assets` list
MaxItems == 2    \* longest `shapes` or `it` list built from the small item pools

SeqsUpTo(S, n) == UNION {[1..m -> S] : m \in 0..n}

\* shape items
Item(ty, it) == [k |-> "object", ty |-> ty, it |-> it]
NullItem == [k |-> "null", ty |-> Undef, it |-> NotList(Undef)]
PrimItem == [k |-> "primitive", ty |-> Undef, it |-> NotList(Undef)]
Leaf(ty) == Item(ty, NotList(Undef))
ItemTypes == {Str("rp"), Str("sr"), Str("mm"), Str("gs"), Str("gr"), Str("fl"), Undef}

\* items three levels deep: shapes[i].it[j].it[k]
DeepLists == {<<>>, <<Leaf(Str("rp"))>>, <<Leaf(Str("gs")), Leaf(Str("gr"))>>}
\* items two levels deep: shapes[i].it[j]
SomeChildren ==
  {Leaf(Str("rp")), Leaf(Str("gr")), Item(Str("gr"), List(<<Leaf(Str("rp"))>>))}
ChildLists ==
  SeqsUpTo(SomeChildren, MaxItems)
  \cup {<<Item(Str("sr"), List(deep))>> : deep \in DeepLists}
  \cup {<<Item(Str("gr"), NotList(Num(1)))>>, <<NullItem>>, <<PrimItem>>,
        <<Leaf(Str("mm")), Leaf(Undef)>>}
\* root items: shapes[i]
SomeRoots ==
  {Leaf(Str("rp")), Leaf(Str("gr")), Item(Str("gr"), List(<<Leaf(Str("rp"))>>))}
ShapeLists ==
  SeqsUpTo(SomeRoots, MaxItems)
  \cup {<<Leaf(ty)>> : ty \in ItemTypes}
  \cup {<<Item(Str("gr"), List(children))>> : children \in ChildLists}
  \cup {<<Item(Str("rp"), List(<<Leaf(Str("rp")), Leaf(Str("gs"))>>))>>,
        <<Item(Str("gr"), NotList(Null))>>, <<Item(Str("gr"), NotList(Obj))>>,
        <<Item(Str("gr"), NotList(Str("x")))>>, <<NullItem>>, <<PrimItem>>,
        <<Leaf(Str("rp")), NullItem>>}

\* layers
GoodLayer ==
  [k |-> "object", ddd |-> Undef, sr |-> Undef, tm |-> Undef, ty |-> Num(4),
   hasMask |-> Undef, masksProperties |-> Undef, tt |-> Undef, ao |-> Undef,
   ef |-> Undef, shapes |-> List(<<>>)]
NullLayer == [AsLayer(NotList(Null)) EXCEPT !.k = "null"]
PrimLayer == [AsLayer(NotList(Num(7))) EXCEPT !.k = "primitive"]
LayerValues ==
  [ddd |-> {Num(0), Num(1), Null, Str("0"), Str("1")},
   sr |-> {Num(1), Num(2), Null},
   tm |-> {Num(0), Obj, Null},
   ty |-> {Num(0), Num(1), Num(2), Num(5), Str("1"), Undef},
   hasMask |-> {Bool(TRUE), Bool(FALSE), Num(1)},
   masksProperties |-> {Arr(0), Arr(1), Null},
   tt |-> {Num(1), Num(2), Null},
   ao |-> {Num(0), Num(1), Bool(TRUE)},
   ef |-> {Arr(1), Null}]
LayerPool ==
  {GoodLayer, NullLayer, PrimLayer}
  \cup UNION {{[GoodLayer EXCEPT ![f] = val] : val \in LayerValues[f]} : f \in DOMAIN LayerValues}
  \cup {[GoodLayer EXCEPT !.shapes = List(items)] : items \in ShapeLists}
  \cup {[GoodLayer EXCEPT !.shapes = NotList(val)] : val \in {Undef, Null, Obj, Num(1)}}
  \cup {[GoodLayer EXCEPT !.ty = Num(1), !.tm = Num(0), !.shapes = List(<<Leaf(Str("rp"))>>)]}
BadLayer == [GoodLayer EXCEPT !.ty = Num(1)]
SomeLayers ==
  {GoodLayer, BadLayer, [GoodLayer EXCEPT !.shapes = List(<<Leaf(Str("rp"))>>)], NullLayer}
LayerLists == SeqsUpTo(SomeLayers, MaxLayers) \cup {<<layer>> : layer \in LayerPool}

\* assets
Asset(id, layers) == [k |-> "object", id |-> id, layers |-> layers]
NullAsset == [k |-> "null", id |-> Undef, layers |-> NotList(Undef)]
PrimAsset == [k |-> "primitive", id |-> Undef, layers |-> NotList(Undef)]
SomeAssets ==
  {Asset(Str("comp_0"), List(<<BadLayer>>)), Asset(Undef, List(<<BadLayer>>)),
   Asset(Str("image_0"), NotList(Undef)), NullAsset}
AssetLists ==
  SeqsUpTo(SomeAssets, MaxAssets)
  \cup {<<PrimAsset>>, <<Asset(Num(0), List(<<GoodLayer, BadLayer>>))>>,
        <<Asset(Str("comp_0"), List(<<GoodLayer>>))>>,
        <<Asset(Str("comp_0"), List(<<NullLayer>>))>>,
        <<Asset(Str("comp_0"), NotList(Obj))>>, <<Asset(Str("comp_0"), NotList(Null))>>}

\* documents
EmptyObject ==
  [k |-> "object", fr |-> Undef, ip |-> Undef, op |-> Undef, w |-> Undef, h |-> Undef,
   ddd |-> Undef, markers |-> Undef, fonts |-> Undef, chars |-> Undef, tgs |-> Undef,
   nm |-> Undef, layers |-> NotList(Undef), assets |-> NotList(Undef)]
BaseDoc ==
  [EmptyObject EXCEPT !.fr = Num(30), !.ip = Num(0), !.op = Num(90), !.w = Num(512),
                      !.h = Num(512), !.ddd = Num(0), !.layers = List(<<GoodLayer>>)]
NullDoc == [EmptyObject EXCEPT !.k = "null"]
ArrayDoc == [EmptyObject EXCEPT !.k = "array"]
DocValues ==
  [fr |-> {Num(60), Num(25), Num(0), Num(-30), Str("30"), Null, Undef},
   ip |-> {Num(1), Num(-1), Undef},
   op |-> {Num(91), Num(180), Str("x"), Undef},
   w |-> {Num(100), Str("512"), Undef},
   h |-> {Num(100), Null},
   ddd |-> {Num(1), Null, Undef, Bool(FALSE)},
   markers |-> {Arr(0), Null},
   fonts |-> {Null, Obj},
   chars |-> {Null, Obj},
   tgs |-> {Num(0), Num(1)},
   nm |-> {Str("sticker"), Blob(65336), Blob(65337)}]
Documents ==
  {EmptyObject, BaseDoc, NullDoc, ArrayDoc}
  \cup UNION {{[BaseDoc EXCEPT ![f] = val] : val \in DocValues[f]} : f \in DOMAIN DocValues}
  \cup {[BaseDoc EXCEPT !.fonts = fonts, !.chars = chars, !.markers = markers, !.nm = nm] :
          fonts \in {Undef, Arr(0), Arr(1)}, chars \in {Undef, Arr(0), Arr(2)},
          markers \in {Undef, Arr(1)}, nm \in {Undef, Blob(70000)}}
  \cup {[BaseDoc EXCEPT !.layers = List(layers)] : layers \in LayerLists}
  \cup {[BaseDoc EXCEPT !.layers = NotList(val)] : val \in {Undef, Null, Obj, Num(1), Str("x")}}
  \cup {[BaseDoc EXCEPT !.assets = List(assets)] : assets \in AssetLists}
  \cup {[BaseDoc EXCEPT !.assets = NotList(val)] : val \in {Null, Obj}}
  \cup {[BaseDoc EXCEPT !.assets = List(<<Asset(Str("comp_0"), List(<<BadLayer>>))>>),
                        !.layers = List(layers), !.fonts = Arr(1)] :
          layers \in {<<>>, <<BadLayer>>, <<GoodLayer, BadLayer>>}}


(***************************************************************************)
(* load() and fetchPath().  A JavaScript value handed to load(), parsed    *)
(* from a text or decoded from a response is a record [type, doc, url,     *)
(* truth]: doc is the document of an object, url says whether new URL()    *)
(* accepts a string, truth is the value of a boolean.  A source string     *)
(* also carries what JSON.parse makes of it; a response carries what       *)
(* JSON.parse makes of its bytes and of its inflated bytes.                *)
(***************************************************************************)
ObjectValue(d) == [type |-> "object", doc |-> d, url |-> FALSE, truth |-> FALSE]
StringValue(isUrl) == [type |-> "string", doc |-> EmptyObject, url |-> isUrl, truth |-> FALSE]
NumberValue == [type |-> "number", doc |-> EmptyObject, url |-> FALSE, truth |-> FALSE]
BooleanValue(b) == [type |-> "boolean", doc |-> EmptyObject, url |-> FALSE, truth |-> b]

Parsed(value) == [ok |-> TRUE, value |-> value]
SyntaxError == [ok |-> FALSE, value |-> NumberValue]

ObjectSource(d) == [type |-> "object", doc |-> d, url |-> FALSE, json |-> SyntaxError]
TextSource(isUrl, json) == [type |-> "string", doc |-> EmptyObject, url |-> isUrl, json |-> json]

Response(plain, inflated) == [plain |-> plain, inflated |-> inflated]

\* the documents that arrive as text: in a source string or in a response
TextDocs ==
  {BaseDoc, NullDoc, [BaseDoc EXCEPT !.fonts = Arr(1)],
   [BaseDoc EXCEPT !.layers = List(<<BadLayer>>)]}
TextValues ==
  {ObjectValue(d) : d \in TextDocs}
  \cup {NumberValue, StringValue(FALSE), StringValue(TRUE), BooleanValue(TRUE),
        BooleanValue(FALSE)}
Sources ==
  {ObjectSource(d) : d \in Documents}
  \cup {TextSource(FALSE, Parsed(value)) : value \in TextValues}
  \cup {TextSource(TRUE, SyntaxError), TextSource(FALSE, SyntaxError)}
Responses ==
  {Response(Parsed(value), SyntaxError) : value \in TextValues}
  \cup {Response(SyntaxError, Parsed(ObjectValue(d))) : d \in TextDocs}
  \cup {Response(SyntaxError, SyntaxError), Response(SyntaxError, Parsed(NumberValue))}
Statuses == {200, 404, 500, 0}

\* parseJSON(src): the parsed value, or false
parseJSON(src) == IF src.json.ok THEN src.json.value ELSE BooleanValue(FALSE)

\* parseURL(src) !== false: new URL() accepts only the strings that are URLs
parseURL(src) == src.type = "string" /\ src.url

\* load() after its string branch: store an object, reject anything else
finish(src) ==
  IF src.type = "object"
  THEN [act |-> "store", doc |-> src.doc, error |-> ""]
  ELSE [act |-> "throw", doc |-> EmptyObject,
        error |-> "Given resource could not be loaded or is invalid."]

\* load(src) up to its await: what it does next
load(src) ==
  IF src.type = "string"
  THEN LET json == parseJSON(src)
           now == IF json # BooleanValue(FALSE) THEN json ELSE StringValue(src.url)
       IN IF parseURL(now)
          THEN [act |-> "await fetchPath", doc |-> EmptyObject, error |-> ""]
          ELSE finish(now)
  ELSE finish(ObjectValue(src.doc))

\* xhr.onreadystatechange of fetchPath, with the response at hand
onreadystatechange(x, response) ==
  IF x.readyState = 4 /\ x.status = 200
  THEN IF response.plain.ok
       THEN [settle |-> "resolve", value |-> response.plain.value]
       ELSE IF response.inflated.ok
            THEN [settle |-> "resolve", value |-> response.inflated.value]
            ELSE [settle |-> "reject", value |-> NumberValue]
  ELSE [settle |-> "none", value |-> NumberValue]

\* load() from its await on, once fetchPath's promise is settled
resume(settled) ==
  IF settled.settle = "reject"
  THEN [act |-> "throw", doc |-> EmptyObject, error |-> "Error loading remote resource."]
  ELSE finish(settled.value)

NoXhr == [readyState |-> 0, status |-> 0]
\* xhr.response before the request is done
NoResponse == Response(SyntaxError, SyntaxError)

(***************************************************************************)
(* The state machine.                                                      *)
(***************************************************************************)
Init ==
  /\ data = EmptyObject
  /\ loaded = EmptyObject
  /\ before = EmptyObject
  /\ ret = NoCall
  /\ prevRet = NoCall
  /\ promise = "none"
  /\ xhr = NoXhr

\* what a step of load() that stores or throws does to the state
Settle(step) ==
  IF step.act = "store"
  THEN /\ data' = step.doc
       /\ loaded' = step.doc
       /\ before' = step.doc
       /\ ret' = NoCall
       /\ prevRet' = NoCall
       /\ promise' = "fulfilled"
  ELSE /\ promise' = step.error
       /\ UNCHANGED <<data, loaded, before, ret, prevRet>>

\* the caller calls load(src); no other load() is waiting for a response
Load(src) ==
  /\ promise # "pending" \/ xhr.readyState = 4
  /\ LET step == load(src)
     IN IF step.act = "await fetchPath"
        THEN /\ promise' = "pending"
             /\ xhr' = [readyState |-> 1, status |-> 0]   \* xhr.open(); xhr.send()
             /\ UNCHANGED <<data, loaded, before, ret, prevRet>>
        ELSE /\ Settle(step)
             /\ xhr' = NoXhr

\* the request advances (headers received, loading) and the handler runs
XhrProgress ==
  /\ promise = "pending"
  /\ xhr.readyState \in {1, 2}
  /\ xhr' = [xhr EXCEPT !.readyState = xhr.readyState + 1]
  /\ onreadystatechange(xhr', NoResponse).settle = "none"
  /\ UNCHANGED <<data, loaded, before, ret, prevRet, promise>>

\* the request finishes with a status and a response, and the handler runs
XhrDone(status, response) ==
  /\ promise = "pending"
  /\ xhr.readyState \in {1, 2, 3}
  /\ xhr' = [readyState |-> 4, status |-> status]
  /\ LET settled == onreadystatechange(xhr', response)
     IN IF settled.settle = "none"
        THEN UNCHANGED <<data, loaded, before, ret, prevRet, promise>>
        ELSE Settle(resume(settled))

\* the caller calls validate()
Validate ==
  /\ LET v == validate(data)
     IN /\ data' = v.data
        /\ ret' = v.out
  /\ before' = data
  /\ prevRet' = ret
  /\ UNCHANGED <<loaded, promise, xhr>>

\* the caller calls generate()
Generate ==
  /\ data' = generate(data).data
  /\ ret' = NoCall
  /\ prevRet' = NoCall
  /\ UNCHANGED <<loaded, before, promise, xhr>>

\* the caller calls download() in a browser: the link is built from generate()
Download ==
  /\ LET blob == generate(data)
     IN data' = blob.data
  /\ ret' = NoCall
  /\ prevRet' = NoCall
  /\ UNCHANGED <<loaded, before, promise, xhr>>

Next ==
  \/ \E src \in Sources : Load(src)
  \/ XhrProgress
  \/ \E status \in Statuses, response \in Responses : XhrDone(status, response)
  \/ Validate
  \/ Generate
  \/ Download

Spec == Init /\ [][Next]_vars

\* the same machine with the plain-string version of the class
ValidateFlat ==
  /\ LET v == validateFlat(data)
     IN /\ data' = v.data
        /\ ret' = v.out
  /\ before' = data
  /\ prevRet' = ret
  /\ UNCHANGED <<loaded, promise, xhr>>

GenerateFlat ==
  /\ data' = generateFlat(data).data
  /\ ret' = NoCall
  /\ prevRet' = NoCall
  /\ UNCHANGED <<loaded, before, promise, xhr>>

DownloadFlat ==
  /\ LET bytes == generateFlat(data)
     IN data' = bytes.data
  /\ ret' = NoCall
  /\ prevRet' = NoCall
  /\ UNCHANGED <<loaded, before, promise, xhr>>

NextFlat ==
  \/ \E src \in Sources : Load(src)
  \/ XhrProgress
  \/ \E status \in Statuses, response \in Responses : XhrDone(status, response)
  \/ ValidateFlat
  \/ GenerateFlat
  \/ DownloadFlat

SpecFlat == Init /\ [][NextFlat]_vars


(***************************************************************************)
(* What the claims speak of, written from their words.                     *)
(***************************************************************************)
RECURSIVE Mentions(_, _)
\* a diagnostic with this message is in errs, directly or nested
Mentions(errs, msg) ==
  \E j \in DOMAIN errs : errs[j].message = msg \/ Mentions(errs[j].details, msg)

RECURSIVE Count(_, _)
\* how many diagnostics with this message errs holds, nested ones included
Count(errs, msg) ==
  IF errs = <<>>
  THEN 0
  ELSE (IF Head(errs).message = msg THEN 1 ELSE 0)
       + Count(Head(errs).details, msg) + Count(Tail(errs), msg)

\* the top-level diagnostics with this message
TopLevel(errs, msg) == {j \in DOMAIN errs : errs[j].message = msg}

LayersOf(d) == IF d.layers.list THEN d.layers.items ELSE <<>>
AssetsOf(d) == IF d.assets.list THEN d.assets.items ELSE <<>>
ItemsOf(slot) == IF slot.list THEN slot.items ELSE <<>>

\* the per-layer rules and the message of each
Rules == {"ddd", "sr", "tm", "solid", "image", "text", "mask", "tt", "ao", "ef"}
Present(val) == val.k \notin {"undefined", "null"}
ViolatesRule(layer, rule) ==
  /\ layer.k = "object"
  /\ CASE rule = "ddd" -> Present(layer.ddd) /\ layer.ddd \notin {Num(0), Str("0"), Bool(FALSE)}
       [] rule = "sr" -> Present(layer.sr) /\ layer.sr \notin {Num(1), Str("1"), Bool(TRUE)}
       [] rule = "tm" -> Present(layer.tm)
       [] rule = "solid" -> layer.ty = Num(1)
       [] rule = "image" -> layer.ty = Num(2)
       [] rule = "text" -> layer.ty = Num(5)
       [] rule = "mask" -> layer.hasMask = Bool(TRUE) \/ Present(layer.masksProperties)
       [] rule = "tt" -> Present(layer.tt)
       [] rule = "ao" -> layer.ao = Num(1)
       [] rule = "ef" -> Present(layer.ef)
RuleMessage(rule) ==
  CASE rule = "ddd" -> "Composition should not include any 3D Layers"
    [] rule = "sr" -> "Composition should not include any Time Stretching"
    [] rule = "tm" -> "Composition should not include any Time Remapping"
    [] rule = "solid" -> "Composition should not include any Solids"
    [] rule = "image" -> "Composition should not include any Images"
    [] rule = "text" -> "Composition should not include any Texts"
    [] rule = "mask" -> "Composition should not include any Masks"
    [] rule = "tt" -> "Composition should not include any Mattes"
    [] rule = "ao" -> "Composition should not include any Auto-Oriented Layers"
    [] rule = "ef" -> "Composition should not include any Layer Effects"
ViolatesSomeRule(layer) == \E rule \in Rules : ViolatesRule(layer, rule)

\* the forbidden shape types and the message of each
Forbidden == {"rp", "sr", "mm", "gs"}
TypeMessage(ty) ==
  CASE ty = "rp" -> "Composition should not include any Repeaters"
    [] ty = "sr" -> "Composition should not include any Star Shapes"
    [] ty = "mm" -> "Composition should not include any Merge Paths"
    [] ty = "gs" -> "Composition should not include any Gradient Strokes"

\* the places of a document's shape items of type ty: <<layer, i>> for
\* layers[layer].shapes[i], <<layer, i, j>> for its .it[j], <<layer, i, j, k>> below
Typed(items, ty) == {i \in DOMAIN items : items[i].ty = Str(ty)}
RootPlaces(d, ty) ==
  UNION {{<<l, i>> : i \in Typed(ItemsOf(LayersOf(d)[l].shapes), ty)} : l \in DOMAIN LayersOf(d)}
ChildPlaces(d, ty) ==
  UNION {UNION {{<<l, i, j>> : j \in Typed(ItemsOf(LayersOf(d)[l].shapes.items[i].it), ty)} :
                  i \in DOMAIN ItemsOf(LayersOf(d)[l].shapes)} :
           l \in DOMAIN LayersOf(d)}
DeepPlaces(d, ty) ==
  UNION {UNION {UNION {{<<l, i, j, k>> :
                          k \in Typed(ItemsOf(LayersOf(d)[l].shapes.items[i].it.items[j].it), ty)} :
                         j \in DOMAIN ItemsOf(LayersOf(d)[l].shapes.items[i].it)} :
                  i \in DOMAIN ItemsOf(LayersOf(d)[l].shapes)} :
           l \in DOMAIN LayersOf(d)}

\* the document the last validate() was called on, as generate() is said to leave it
Canonical(d) ==
  [f \in DOMAIN d |->
     IF f = "tgs" THEN Num(1)
     ELSE IF f \in {"markers", "fonts", "chars"} THEN Undef
     ELSE d[f]]


(***************************************************************************)
(* The claims.  before is the document validate() was last called on, ret  *)
(* what that call did.                                                     *)
(***************************************************************************)

\* C1: validate() never throws, whatever document load() stored.
C1_ValidateNeverThrows == ret.kind # "threw"

\* C2: when a layer of the top-level `layers` list violates a per-layer rule,
\* what validate() returns is not empty and holds the diagnostic of that
\* violation.  (On the plain-string version, where a diagnostic is its message.)
C2_LayerViolationReported ==
  ret.kind = "returned" =>
    \A l \in DOMAIN LayersOf(before) : \A rule \in Rules :
      ViolatesRule(LayersOf(before)[l], rule) =>
        /\ ret.errors # <<>>
        /\ \E j \in DOMAIN ret.errors : ret.errors[j] = RuleMessage(rule)

\* C3: when a layer in an asset's `layers` list violates a per-layer rule, what
\* validate() returns holds a diagnostic keyed by the asset's id (its index when
\* it has none) whose nested diagnostics include the violation.
C3_AssetLayerViolationReported ==
  ret.kind = "returned" =>
    \A a \in DOMAIN AssetsOf(before) :
      LET asset == AssetsOf(before)[a]
          key == IF asset.id.k = "undefined" THEN ToString(a - 1) ELSE Text(asset.id)
      IN \A l \in DOMAIN ItemsOf(asset.layers) : \A rule \in Rules :
           (asset.k = "object" /\ ViolatesRule(asset.layers.items[l], rule)) =>
             \E j \in DOMAIN ret.errors : \E m \in DOMAIN ret.errors[j].details :
               /\ ret.errors[j].details[m].message = "Asset " \o key \o " has errors"
               /\ Mentions(ret.errors[j].details[m].details, RuleMessage(rule))

\* C4: two consecutive validate() calls after one load(), with no other call in
\* between, return the same diagnostics.
C4_ValidateIdempotent == prevRet.kind # "none" => ret = prevRet

\* C5 as stated: a layer with a repeater at shapes[0].it[0] and no other
\* violation gets no 'Repeaters' diagnostic.
OnlyRepeaterIsFirstChild(d) ==
  /\ \A l \in DOMAIN LayersOf(d) : ~ViolatesSomeRule(LayersOf(d)[l])
  /\ \A ty \in Forbidden : RootPlaces(d, ty) = {}
  /\ \A ty \in Forbidden \ {"rp"} : ChildPlaces(d, ty) = {}
  /\ ChildPlaces(d, "rp") # {}
  /\ \A place \in ChildPlaces(d, "rp") : place[2] = 1 /\ place[3] = 1
C5_FirstChildRepeaterNotFlagged ==
  (ret.kind = "returned" /\ OnlyRepeaterIsFirstChild(before)) =>
    ~Mentions(ret.errors, TypeMessage("rp"))

\* C5 amended: a layer with a repeater at shapes[0].it[0].it[0], three levels
\* deep, and no other violation gets no 'Repeaters' diagnostic.
OnlyRepeaterIsDeep(d) ==
  /\ \A l \in DOMAIN LayersOf(d) : ~ViolatesSomeRule(LayersOf(d)[l])
  /\ \A ty \in Forbidden : RootPlaces(d, ty) = {} /\ ChildPlaces(d, ty) = {}
  /\ \E place \in DeepPlaces(d, "rp") : place[2] = 1 /\ place[3] = 1 /\ place[4] = 1
C5_DeepRepeaterNotFlagged ==
  (ret.kind = "returned" /\ OnlyRepeaterIsDeep(before)) =>
    ~Mentions(ret.errors, TypeMessage("rp"))
C5_DeepRepeaterValidated == ret.kind = "returned" /\ OnlyRepeaterIsDeep(before)

\* C6: what validate() returns holds the 'at least 1 layer' diagnostic exactly
\* when `layers` is absent, is no list, or is a list without entries.
C6_AtLeastOneLayer ==
  ret.kind = "returned" =>
    (TopLevel(ret.errors, "Should have atleast 1 layer") # {}
       <=> ~(before.layers.list /\ Len(before.layers.items) >= 1))

\* C7: once the request of a load() has finished unsuccessfully (readyState 4
\* with a status other than 200), the load() is rejected with the 'remote
\* resource' error and does not stay pending.
C7_FailedFetchRejects ==
  (xhr.readyState = 4 /\ xhr.status # 200) => promise = "Error loading remote resource."

\* C8: validate() leaves the stored document as it was when loaded, and as it
\* was before the call, except that tgs is 1 and markers, fonts and chars are
\* removed; a call that throws leaves it untouched.
C8_ValidateFrame ==
  /\ ret.kind = "returned" => data = Canonical(before) /\ data = Canonical(loaded)
  /\ ret.kind = "threw" => data = before
C8_ValidatedTwiceWithFonts ==
  /\ ret.kind = "returned"
  /\ prevRet.kind = "returned"
  /\ loaded.fonts = Arr(1)
  /\ loaded.tgs = Undef
  /\ loaded.assets.list
  /\ data.fonts = Undef

\* C9: in what validate() returns for the top-level layers, a shape item of a
\* forbidden type is flagged once when it is a root item (shapes[i]) or a child
\* of a root item (shapes[i].it[j]), and not at all when it lies deeper.
LayersDiagnostic ==
  IF TopLevel(ret.errors, "Layers have errors") = {}
  THEN <<>>
  ELSE <<ret.errors[CHOOSE j \in TopLevel(ret.errors, "Layers have errors") : TRUE]>>
C9_ShapeDepth ==
  ret.kind = "returned" =>
    \A ty \in Forbidden :
      Count(LayersDiagnostic, TypeMessage(ty))
        = Cardinality(RootPlaces(before, ty)) + Cardinality(ChildPlaces(before, ty))
C9_ForbiddenAtChildAndDeeper ==
  /\ ret.kind = "returned"
  /\ \E ty \in Forbidden : ChildPlaces(before, ty) # {}
  /\ \E ty \in Forbidden : DeepPlaces(before, ty) # {}

\* C10: what validate() returns holds at most one top-level diagnostic of each
\* message, and the details of 'Layers have errors' have one entry per
\* violating layer.
C10_OneDiagnosticPerCheck ==
  ret.kind = "returned" =>
    /\ \A j, m \in DOMAIN ret.errors : ret.errors[j].message = ret.errors[m].message => j = m
    /\ \A j \in TopLevel(ret.errors, "Layers have errors") :
         Len(ret.errors[j].details)
           = Cardinality({l \in DOMAIN LayersOf(before) :
                            \/ ViolatesSomeRule(LayersOf(before)[l])
                            \/ \E ty \in Forbidden :
                                 \E place \in RootPlaces(before, ty) \cup ChildPlaces(before, ty) :
                                   place[1] = l})

============================================================================
